---- MODULE Spec2Model ----
(***************************************************************************)
(* A model of rigtorp::SPSCQueue<T> (src/SPSCQueue.h): a bounded ring      *)
(* buffer shared by one producer thread and one consumer thread.           *)
(*                                                                         *)
(* Every atomic load or store of head_ / tail_ and every placement         *)
(* construction or destruction of a slot is one step of the thread that    *)
(* performs it; the two threads' steps interleave freely.  The program     *)
(* counters are named after the source line the thread is about to         *)
(* execute ("e64" = line 64 of emplace, "p96" = line 96 of pop, ...).      *)
(* Acquire/release atomics are modelled as sequentially consistent         *)
(* accesses.                                                               *)
(***************************************************************************)
EXTENDS Integers, Sequences, FiniteSets, TLC

\* ------------------------------------------------------------------ bounds
\* largest capacity passed to the constructor (0..MaxCap are tried)
MaxCap == 4
\* number of successful inserts the producer performs in one run
MaxPush == 4
\* sizeof(T) for the element type the queue is instantiated with
SizeofT == 64

\* the payloads the producer chooses from; the queue never inspects a payload
Values == {"A", "B"}
\* the payload of a slot that holds no element
NoVal == "-"

\* ------------------------------------------------------- program constants
kCacheLineSize == 128

kPadding == (kCacheLineSize - 1) \div SizeofT + 1

\* nullptr
Null == -1

VARIABLES
  phase,      \* lifecycle of the queue object
  ndebug,     \* TRUE iff the translation unit is compiled with NDEBUG
  capacity,   \* capacity_
  block,      \* the malloc'ed storage block: "none", "allocated", "freed"
  slots,      \* slots_[0 .. capacity_ + 2*kPadding - 1]
  head_,      \* head_
  tail_,      \* tail_
  pc_p,       \* producer thread: next line to execute
  phead,      \* producer local: head
  pnext,      \* producer local: nextHead
  parg,       \* producer local: the constructor argument of the call
  pret,       \* producer: what its last call returned
  pspun,      \* producer: its last emplace() found the queue full at least once
  pc_c,       \* consumer thread: next line to execute
  ctail,      \* consumer local: tail
  chead,      \* consumer: value of head_ read by the last front()
  cres,       \* consumer: pointer returned by the last front() since the last pop()
  celem,      \* consumer: the element that pointer designated when first returned
  fhead,      \* consumer: value of head_ read by the front() that first returned cres
  sz,         \* per thread: the locals and the result of its size() / capacity() call
  produced,   \* history: elements inserted, in order of publication
  consumed,   \* history: elements the consumer read through front() before pop()
  destroyed   \* history: elements destroyed, in order of destruction

vars == <<phase, ndebug, capacity, block, slots, head_, tail_,
          pc_p, phead, pnext, parg, pret, pspun,
          pc_c, ctail, chead, cres, celem, fhead, sz,
          produced, consumed, destroyed>>

shared == <<capacity, block, slots, head_, tail_>>
prodLocals == <<pc_p, phead, pnext, parg, pret, pspun>>
consLocals == <<pc_c, ctail, chead, cres, celem, fhead>>
histories == <<produced, consumed, destroyed>>

\* an uninitialised slot and a slot holding a constructed T
Raw == [st |-> "raw", id |-> 0, val |-> NoVal]
Live(i, v) == [st |-> "live", id |-> i, val |-> v]

\* what reading through a pointer yields: the element, or an indeterminate
\* value when the slot holds no constructed element
Garbage == [st |-> "garbage", id |-> 0, val |-> NoVal]
Deref(p) == IF slots[p].st = "live" THEN slots[p] ELSE Garbage

\* the two threads
Threads == {"prod", "cons"}

\* a thread that is not inside size() / empty() / capacity()
NoSz == [op |-> "none", first |-> "none", val |-> 0, snap |-> 0, ret |-> 0, emp |-> FALSE]

\* size(): ssize_t diff = head - tail; if (diff < 0) diff += capacity_
\* (mutant: a negative difference is returned as it is)
SizeOf_NoWrap(h, t) == h - t
SizeOf(h, t) == LET diff == h - t IN IF diff < 0 THEN diff + capacity ELSE diff

\* ------------------------------------------------------------ construction
Init ==
  /\ phase = "unconstructed"
  /\ ndebug \in BOOLEAN
  /\ capacity = 0
  /\ block = "none"
  /\ slots = << >>
  /\ head_ = 0
  /\ tail_ = 0
  /\ pc_p = "idle" /\ phead = 0 /\ pnext = 0 /\ parg = NoVal /\ pret = "none"
  /\ pspun = FALSE
  /\ pc_c = "idle" /\ ctail = 0 /\ chead = 0 /\ cres = Null /\ celem = Raw /\ fhead = 0
  /\ sz = [th \in Threads |-> NoSz]
  /\ produced = << >> /\ consumed = << >> /\ destroyed = << >>

\* SPSCQueue(capacity): the member initialisers run malloc first, then the
\* body checks capacity_ < 2, then !slots_.  The two asserts of lines 44-47
\* compare layout facts the alignas specifiers of lines 125-126 fix at compile
\* time; they hold for every T.
\* (mutant: the allocation is checked before the capacity)
Ctor_AllocFirst(cap, mallocOk) ==
  /\ phase = "unconstructed"
  /\ capacity' = cap
  /\ block' = IF mallocOk THEN "allocated" ELSE "none"
  /\ head_' = 0
  /\ tail_' = 0
  /\ IF ~mallocOk
       THEN phase' = "AllocationFailure" /\ slots' = slots
       ELSE IF cap < 2
         THEN phase' = "InvalidCapacity" /\ slots' = slots
         ELSE /\ phase' = "alive"
              /\ slots' = [i \in 0..(cap + 2 * kPadding - 1) |-> Raw]
  /\ UNCHANGED <<ndebug, prodLocals, consLocals, sz, histories>>

Ctor(cap, mallocOk) ==
  /\ phase = "unconstructed"
  /\ capacity' = cap
  /\ block' = IF mallocOk THEN "allocated" ELSE "none"
  /\ head_' = 0
  /\ tail_' = 0
  /\ IF cap < 2
       THEN phase' = "InvalidCapacity" /\ slots' = slots
       ELSE IF ~mallocOk
         THEN phase' = "AllocationFailure" /\ slots' = slots
         ELSE /\ phase' = "alive"
              /\ slots' = [i \in 0..(cap + 2 * kPadding - 1) |-> Raw]
  /\ UNCHANGED <<ndebug, prodLocals, consLocals, sz, histories>>

Construct == \E cap \in 0..MaxCap, mallocOk \in BOOLEAN : Ctor(cap, mallocOk)

\* a failed assert and a crash end the process: no thread takes a step after it
Halted == phase \in {"aborted", "crashed"}

\* ---------------------------------------------------------------- producer
ProducerFrame == UNCHANGED <<phase, ndebug, capacity, block, tail_, consLocals,
                             sz, consumed, destroyed>>

\* the producer thread calls emplace(v) / push(v)
EmplaceCall ==
  /\ phase = "alive" /\ pc_p = "idle"
  /\ Len(produced) < MaxPush
  /\ \E v \in Values : parg' = v
  /\ pc_p' = "e62" /\ pret' = "none" /\ pspun' = FALSE
  /\ UNCHANGED <<slots, head_, phead, pnext, produced>>
  /\ ProducerFrame

\* the producer thread calls try_emplace(v) / try_push(v)
TryEmplaceCall ==
  /\ phase = "alive" /\ pc_p = "idle"
  /\ Len(produced) < MaxPush
  /\ \E v \in Values : parg' = v
  /\ pc_p' = "t71" /\ pret' = "none" /\ pspun' = FALSE
  /\ UNCHANGED <<slots, head_, phead, pnext, produced>>
  /\ ProducerFrame

\* lines 62-63 / 71-72: head = head_.load(relaxed); nextHead = (head + 1) % capacity_
LoadHead(from, to) ==
  /\ pc_p = from
  /\ ~Halted
  /\ phead' = head_
  /\ pnext' = (head_ + 1) % capacity
  /\ pc_p' = to
  /\ UNCHANGED <<slots, head_, parg, pret, pspun, produced>>
  /\ ProducerFrame

\* line 64: while (nextHead == tail_.load(acquire)) ;
\* an iteration that reads a tail equal to nextHead goes round again
\* (mutant: the loop gives up after its first iteration)
SpinExit_NoWait(nh, t) == TRUE
\* (mutant: the loop compares tail with the index after nextHead)
SpinExit_OffByOne(nh, t) == (nh + 1) % capacity # t
SpinExit(nh, t) == nh # t

E64 ==
  /\ pc_p = "e64"
  /\ ~Halted
  /\ IF SpinExit(pnext, tail_)
       THEN pc_p' = "e66" /\ pspun' = pspun
       ELSE pc_p' = "e64" /\ pspun' = TRUE
  /\ UNCHANGED <<slots, head_, phead, pnext, parg, pret, produced>>
  /\ ProducerFrame

\* line 73: if (nextHead == tail_.load(acquire)) return false;
\* (mutants of the fullness check: full is taken for head == tail; full is
\* reported one slot early)
IsFull_HeadEqTail(nh, t) == nh = (t + 1) % capacity
IsFull_Early(nh, t) == nh = t \/ (nh + 1) % capacity = t
IsFull(nh, t) == nh = t

\* (mutant: the element is constructed before the fullness check)
T73_ConstructFirst ==
  /\ pc_p = "t73"
  /\ ~Halted
  /\ slots' = [slots EXCEPT ![phead + kPadding] = Live(Len(produced) + 1, parg)]
  /\ IF pnext = tail_
       THEN pc_p' = "idle" /\ pret' = "false" /\ phead' = 0 /\ pnext' = 0 /\ parg' = NoVal
       ELSE pc_p' = "t76" /\ UNCHANGED <<pret, phead, pnext, parg>>
  /\ UNCHANGED <<head_, pspun, produced>>
  /\ ProducerFrame

\* (mutant: a full queue makes try_emplace start over instead of returning)
T73_Retry ==
  /\ pc_p = "t73"
  /\ ~Halted
  /\ IF IsFull(pnext, tail_)
       THEN pc_p' = "t71" /\ UNCHANGED <<pret, phead, pnext, parg>>
       ELSE pc_p' = "t76" /\ UNCHANGED <<pret, phead, pnext, parg>>
  /\ UNCHANGED <<slots, head_, pspun, produced>>
  /\ ProducerFrame

T73 ==
  /\ pc_p = "t73"
  /\ ~Halted
  /\ IF IsFull(pnext, tail_)
       THEN pc_p' = "idle" /\ pret' = "false" /\ phead' = 0 /\ pnext' = 0 /\ parg' = NoVal
       ELSE pc_p' = "t76" /\ UNCHANGED <<pret, phead, pnext, parg>>
  /\ UNCHANGED <<slots, head_, pspun, produced>>
  /\ ProducerFrame

\* lines 66 / 76: new (&slots_[head + kPadding]) T(args...)
\* (mutant: the padding offset is forgotten)
ConstructAt_NoPad(h) == h
\* (mutant: the element is constructed in the slot after head)
ConstructAt_Next(h) == ((h + 1) % capacity) + kPadding
\* (mutant: the element is constructed in the slot before head)
ConstructAt_Prev(h) == ((h + capacity - 1) % capacity) + kPadding
ConstructAt(h) == h + kPadding

PlacementNew(from, to) ==
  /\ pc_p = from
  /\ ~Halted
  /\ slots' = [slots EXCEPT ![ConstructAt(phead)] = Live(Len(produced) + 1, parg)]
  /\ pc_p' = to
  /\ UNCHANGED <<head_, phead, pnext, parg, pret, pspun, produced>>
  /\ ProducerFrame

\* lines 67 / 77-78: head_.store(nextHead, release); return
\* (mutant: the store publishes the old index)
PublishedHead_Stale(h, nh) == h
\* (mutant: the store publishes the index after nextHead)
PublishedHead_Skip(h, nh) == (nh + 1) % capacity
PublishedHead(h, nh) == nh

Publish(from, ret) ==
  /\ pc_p = from
  /\ ~Halted
  /\ head_' = PublishedHead(phead, pnext)
  /\ produced' = Append(produced, slots[ConstructAt(phead)])
  /\ pc_p' = "idle" /\ pret' = ret
  /\ phead' = 0 /\ pnext' = 0 /\ parg' = NoVal
  /\ UNCHANGED <<slots, pspun>>
  /\ ProducerFrame

E62 == LoadHead("e62", "e64")
E66 == PlacementNew("e66", "e67")
E67 == Publish("e67", "void")
T71 == LoadHead("t71", "t73")
T76 == PlacementNew("t76", "t77")
T77 == Publish("t77", "true")

Producer == EmplaceCall \/ E62 \/ E64 \/ E66 \/ E67
              \/ TryEmplaceCall \/ T71 \/ T73 \/ T76 \/ T77

\* ---------------------------------------------------------------- consumer
ConsumerFrame == UNCHANGED <<ndebug, capacity, head_, prodLocals, sz, produced>>

\* where a call made on the consumer side returns to: the consumer thread's
\* caller, or the loop of the destructor (lines 51-53)
\* (mutant: the destructor releases the block without draining the queue)
AfterFront_NoDrain(r) == IF phase = "destroying" THEN "d54" ELSE "idle"
AfterFront(r) == IF phase = "destroying"
                   THEN (IF r = Null THEN "d54" ELSE "p94")
                   ELSE "idle"
AfterPop == IF phase = "destroying" THEN "f86" ELSE "idle"

\* the consumer thread calls front()
FrontCall ==
  /\ phase = "alive" /\ pc_c = "idle"
  /\ pc_c' = "f86"
  /\ UNCHANGED <<phase, block, slots, tail_, ctail, chead, cres, celem, fhead,
                 consumed, destroyed>>
  /\ ConsumerFrame

\* line 86: tail = tail_.load(relaxed)
F86 ==
  /\ pc_c = "f86"
  /\ ctail' = tail_
  /\ pc_c' = "f87"
  /\ UNCHANGED <<phase, block, slots, tail_, chead, cres, celem, fhead,
                 consumed, destroyed>>
  /\ ConsumerFrame

\* lines 87-90: if (head_.load(acquire) == tail) return nullptr;
\*              return &slots_[tail + kPadding];
\* (mutant: the padding offset is forgotten)
FrontResult_NoPad(h, t) == IF h = t THEN Null ELSE t
\* (mutant: the newest element is returned instead of the oldest)
FrontResult_Newest(h, t) ==
  IF h = t THEN Null ELSE ((h + capacity - 1) % capacity) + kPadding
FrontResult(h, t) == IF h = t THEN Null ELSE t + kPadding

F87 ==
  /\ pc_c = "f87"
  /\ chead' = head_
  /\ cres' = FrontResult(head_, ctail)
  /\ IF cres = Null /\ cres' # Null
       THEN celem' = Deref(cres') /\ fhead' = head_
       ELSE UNCHANGED <<celem, fhead>>
  /\ pc_c' = AfterFront(cres')
  /\ UNCHANGED <<phase, block, slots, tail_, ctail, consumed, destroyed>>
  /\ ConsumerFrame

\* the consumer thread reads the element front() returned and calls pop()
PopCall ==
  /\ phase = "alive" /\ pc_c = "idle"
  /\ cres # Null
  /\ Len(consumed) < MaxPush
  /\ consumed' = Append(consumed, Deref(cres))
  /\ pc_c' = "p94"
  /\ UNCHANGED <<phase, block, slots, tail_, ctail, chead, cres, celem, fhead,
                 destroyed>>
  /\ ConsumerFrame

\* the consumer thread calls pop() while the queue is empty
PopCallOnEmpty ==
  /\ phase = "alive" /\ pc_c = "idle"
  /\ cres = Null
  /\ head_ = tail_
  /\ pc_c' = "p94"
  /\ UNCHANGED <<phase, block, slots, tail_, ctail, chead, cres, celem, fhead,
                 consumed, destroyed>>
  /\ ConsumerFrame

\* line 94: tail = tail_.load(relaxed)
P94 ==
  /\ pc_c = "p94"
  /\ ctail' = tail_
  /\ pc_c' = "p95"
  /\ UNCHANGED <<phase, block, slots, tail_, chead, cres, celem, fhead,
                 consumed, destroyed>>
  /\ ConsumerFrame

\* line 95: assert(head_.load(acquire) != tail); compiled out under NDEBUG
\* (mutant: the check is compiled out in every build)
AssertPasses_Always(nd, h, t) == TRUE
AssertPasses(nd, h, t) == nd \/ h # t

P95 ==
  /\ pc_c = "p95"
  /\ IF AssertPasses(ndebug, head_, ctail)
       THEN pc_c' = "p96" /\ phase' = phase
       ELSE pc_c' = "abort" /\ phase' = "aborted"
  /\ UNCHANGED <<block, slots, tail_, ctail, chead, cres, celem, fhead,
                 consumed, destroyed>>
  /\ ConsumerFrame

\* line 96: slots_[tail + kPadding].~T()
\* Running the destructor on a slot that holds no element, or on the slot the
\* producer is constructing into and has not published, is undefined: the
\* process crashes, or it goes on; in the latter case the calls in progress
\* are followed to their end (phase "undefined").
\* (mutant: the slot after tail is destroyed)
DestroyAt_Next(t) == ((t + 1) % capacity) + kPadding
DestroyAt(t) == t + kPadding

ProducerOwns(p) == pc_p \in {"e66", "e67", "t76", "t77"} /\ ConstructAt(phead) = p

P96 ==
  /\ pc_c = "p96"
  /\ LET p == DestroyAt(ctail) IN
       IF slots[p].st = "live" /\ ~ProducerOwns(p)
         THEN /\ slots' = [slots EXCEPT ![p] = Raw]
              /\ destroyed' = Append(destroyed, slots[p])
              /\ pc_c' = "p97" /\ phase' = phase
         ELSE /\ UNCHANGED <<slots, destroyed>>
              /\ \E crash \in BOOLEAN :
                   IF crash THEN pc_c' = "abort" /\ phase' = "crashed"
                            ELSE pc_c' = "p97" /\ phase' = "undefined"
  /\ UNCHANGED <<block, tail_, ctail, chead, cres, celem, fhead, consumed>>
  /\ ConsumerFrame

\* lines 97-98: nextTail = (tail + 1) % capacity_; tail_.store(nextTail, release)
\* (mutant: the wraparound is forgotten)
NextTail_NoWrap(t) == t + 1
NextTail(t) == (t + 1) % capacity

P98 ==
  /\ pc_c = "p97"
  /\ tail_' = NextTail(ctail)
  /\ pc_c' = AfterPop
  /\ ctail' = 0 /\ chead' = 0 /\ cres' = Null /\ celem' = Raw /\ fhead' = 0
  /\ UNCHANGED <<phase, block, slots, consumed, destroyed>>
  /\ ConsumerFrame

Consumer == FrontCall \/ F86 \/ F87 \/ PopCall \/ P94 \/ P95 \/ P96 \/ P98

\* -------------------------------------------------------------- destructor
\* ~SPSCQueue(), called once both threads have stopped using the queue:
\* while (front()) pop();
DtorCall ==
  /\ phase = "alive" /\ pc_p = "idle" /\ pc_c = "idle"
  /\ phase' = "destroying"
  /\ pc_c' = "f86"
  /\ UNCHANGED <<block, slots, tail_, ctail, chead, cres, celem, fhead,
                 consumed, destroyed>>
  /\ ConsumerFrame

\* line 54: std::free(slots_)
D54 ==
  /\ pc_c = "d54"
  /\ block' = "freed"
  /\ phase' = "destroyed"
  /\ pc_c' = "idle"
  /\ UNCHANGED <<slots, tail_, ctail, chead, cres, celem, fhead, consumed, destroyed>>
  /\ ConsumerFrame

Destructor == DtorCall \/ D54

\* ----------------------------------------------------------- introspection
\* size(), empty() and capacity() may be called by either thread between two
\* of its other calls.
PcOf(th) == IF th = "prod" THEN pc_p ELSE pc_c

Goto(th, from, to) ==
  /\ PcOf(th) = from
  /\ IF th = "prod" THEN pc_p' = to /\ pc_c' = pc_c
                    ELSE pc_c' = to /\ pc_p' = pc_p

IntrospectionFrame ==
  UNCHANGED <<phase, ndebug, capacity, block, slots, head_, tail_,
              phead, pnext, parg, pret, pspun,
              ctail, chead, cres, celem, fhead, histories>>

\* the thread calls size(), or empty(), which is size() == 0 (line 110)
SizeCall(th) ==
  /\ phase = "alive"
  /\ Goto(th, "idle", "s102")
  /\ sz' = [sz EXCEPT ![th] = [NoSz EXCEPT !.op = "size"]]
  /\ IntrospectionFrame

\* lines 102-103: head_.load(acquire) - tail_.load(acquire); the operands of
\* the subtraction are evaluated in either order.  This is the first load.
S102(th) ==
  /\ ~Halted
  /\ Goto(th, "s102", "s103")
  /\ \E first \in {"head", "tail"} :
       sz' = [sz EXCEPT ![th] = [@ EXCEPT !.first = first,
                                         !.val = IF first = "head" THEN head_ ELSE tail_,
                                         !.snap = SizeOf(head_, tail_)]]
  /\ IntrospectionFrame

\* the index size() uses for head and for tail once it makes its second load
HeadRead(th) == IF sz[th].first = "head" THEN sz[th].val ELSE head_
TailRead(th) == IF sz[th].first = "tail" THEN sz[th].val ELSE tail_

\* line 110: size() == 0
EmptyOf(n) == n = 0

\* lines 102-107: the second load, the subtraction, the correction of a
\* negative difference and the return, which ends the life of the operands
S103(th) ==
  /\ ~Halted
  /\ Goto(th, "s103", "s108")
  /\ sz' = [sz EXCEPT ![th] = [NoSz EXCEPT !.op = "size",
                                           !.ret = SizeOf(HeadRead(th), TailRead(th)),
                                           !.emp = EmptyOf(SizeOf(HeadRead(th), TailRead(th)))]]
  /\ IntrospectionFrame

\* line 112: capacity() returns capacity_
CapacityCall(th) ==
  /\ phase = "alive"
  /\ Goto(th, "idle", "s108")
  /\ sz' = [sz EXCEPT ![th] = [NoSz EXCEPT !.op = "capacity", !.ret = capacity]]
  /\ IntrospectionFrame

\* the caller has used the result
S108(th) ==
  /\ ~Halted
  /\ Goto(th, "s108", "idle")
  /\ sz' = [sz EXCEPT ![th] = NoSz]
  /\ IntrospectionFrame

Introspection ==
  \E th \in Threads :
    SizeCall(th) \/ S102(th) \/ S103(th) \/ CapacityCall(th) \/ S108(th)

\* ---------------------------------------------------------- specifications
\* Both threads respect the contract: pop() is called after front() returned
\* an element.
Next == Construct \/ Producer \/ Consumer \/ Destructor

Spec == Init /\ [][Next]_vars

\* Each thread that is inside a call keeps running: the steps of the calls in
\* progress are taken eventually.  Whether a thread makes another call is
\* left open.
ProducerRuns == E62 \/ E64 \/ E66 \/ E67 \/ T71 \/ T73 \/ T76 \/ T77
ConsumerRuns == F86 \/ F87 \/ P94 \/ P95 \/ P96 \/ P98 \/ D54

SpecLive == Init /\ [][Next]_vars /\ WF_vars(ProducerRuns) /\ WF_vars(ConsumerRuns)

\* The threads also call size(), empty() and capacity().  These calls contain
\* no assert and the clients respect pop()'s precondition, so one build
\* flavour is followed: the one in which the assert of line 95 is compiled in.
NextIntro == Next \/ Introspection

InitIntro == Init /\ ~ndebug

SpecIntro == InitIntro /\ [][NextIntro]_vars

\* The consumer may also violate pop()'s precondition.
NextMisuse == Next \/ PopCallOnEmpty

SpecMisuse == Init /\ [][NextMisuse]_vars

\* ------------------------------------------------------------- vocabulary
Constructed == phase \in {"alive", "destroying", "destroyed"}

\* the storage index of logical slot i
SlotOf(i) == i + kPadding

\* the slots size() counts as elements, oldest first
QueueContents ==
  [i \in 1..SizeOf(head_, tail_) |-> slots[SlotOf((tail_ + i - 1) % capacity)]]

\* the number of constructed, not yet destroyed elements
LiveCount == Cardinality({i \in DOMAIN slots : slots[i].st = "live"})

\* the consumer is between reading the front element and publishing its removal
InClientPop == pc_c \in {"p94", "p95", "p96", "p97"}

ProducerSteps == pc_p' # pc_p \/ pspun' # pspun
ConsumerSteps == pc_c' # pc_c

\* ------------------------------------------------------------------ claims

\* C1: FIFO law.  The elements the consumer has read through front() before
\* each pop() are, in order, the first elements the producer inserted, and
\* the inserted elements not yet read are exactly the queue's contents in
\* insertion order: nothing is lost, duplicated or reordered, in every
\* interleaving and across index wraparound.
C1_Fifo ==
  phase = "alive" =>
    /\ Len(consumed) <= Len(produced)
    /\ produced = consumed \o (IF InClientPop THEN Tail(QueueContents) ELSE QueueContents)

\* the consumer has read four elements out of a queue of capacity 3 (both
\* indices have wrapped), with different payloads, while the producer is busy
C1_Witness ==
  /\ phase = "alive" /\ capacity = 3
  /\ Len(consumed) = 4
  /\ consumed[1].val # consumed[2].val
  /\ consumed[4] = produced[4]
  /\ pc_c = "idle" /\ head_ = 1 /\ tail_ = 1

\* the bound on the number of live elements, for a queue that was constructed
LiveBound == Constructed => LiveCount <= capacity - 1

\* C2: at most capacity - 1 elements are live in any state, including the
\* states in the middle of an insert or a remove, and a try_emplace that
\* makes its fullness check while capacity - 1 elements are live fails.
C2_AtMostCapMinusOne ==
  /\ []LiveBound
  /\ [][(pc_p = "t73" /\ ProducerSteps /\ LiveCount = capacity - 1)
          => (pc_p' = "idle" /\ pret' = "false")]_vars

\* a try_emplace has just failed on a queue of capacity 4 holding 3 elements
C2_Witness ==
  /\ phase = "alive" /\ capacity = 4
  /\ LiveCount = 3
  /\ pc_p = "idle" /\ pret = "false"

\* C3: try_emplace succeeds iff size() < capacity - 1 when it reads tail; a
\* successful call has stored the element in the slot indexed by head and
\* publishes it by advancing head by one modulo capacity, which increases
\* size() by exactly one.
C3_TryEmplace ==
  /\ [][(pc_p = "t73" /\ ProducerSteps)
          => /\ (pc_p' = "t76") <=> (SizeOf(head_, tail_) < capacity - 1)
             /\ (pc_p' = "idle" /\ pret' = "false") <=> ~(SizeOf(head_, tail_) < capacity - 1)]_vars
  /\ [][(pc_p = "t77" /\ ProducerSteps)
          => /\ pc_p' = "idle" /\ pret' = "true"
             /\ slots[SlotOf(head_)] = Live(Len(produced) + 1, parg)
             /\ slots' = slots
             /\ head_' = (head_ + 1) % capacity
             /\ SizeOf(head_', tail_') = SizeOf(head_, tail_) + 1]_vars

\* capacity 4: a try_emplace has succeeded after a pop() and filled the queue again
C3_Witness ==
  /\ phase = "alive" /\ capacity = 4
  /\ pc_p = "idle" /\ pret = "true"
  /\ Len(destroyed) = 1 /\ Len(produced) = 4
  /\ SizeOf(head_, tail_) = 3

\* C4: the steps of a try_emplace up to and including a failing return change
\* neither head, tail, any slot nor the record of inserted elements.
C4_FailedTryNoEffect ==
  [][(pc_p \in {"t71", "t73"} /\ ProducerSteps /\ pc_p' \in {"t73", "idle"})
       => /\ head_' = head_ /\ tail_' = tail_ /\ slots' = slots
          /\ produced' = produced
          /\ (pc_p' = "idle" => pret' = "false")]_vars

\* a try_emplace has returned false while a pop() was in progress
C4_Witness ==
  /\ phase = "alive" /\ capacity = 3
  /\ pc_p = "idle" /\ pret = "false"
  /\ pc_c = "p97"

FrontSteps ==
  /\ ConsumerSteps
  /\ pc_c \in {"f86", "f87"} \/ (pc_c = "idle" /\ pc_c' = "f86")

\* C5: front() returns nullptr iff head == tail when it reads head; otherwise
\* it returns the slot indexed by tail, which holds the oldest inserted
\* element not yet removed.  No step of front() changes head, tail or a slot.
C5_Front ==
  /\ [][(pc_c = "f87" /\ ConsumerSteps)
          => /\ (cres' = Null) <=> (head_ = tail_)
             /\ cres' # Null =>
                  /\ cres' = SlotOf(tail_)
                  /\ slots[cres'].st = "live"
                  /\ slots[cres'].id = Len(destroyed) + 1
                  /\ \A j \in DOMAIN slots :
                       slots[j].st = "live" => slots[j].id >= slots[cres'].id]_vars
  /\ [][FrontSteps => (head_' = head_ /\ tail_' = tail_ /\ slots' = slots)]_vars

\* front() has returned the element at tail = 2 of a queue of capacity 4 that
\* holds a younger element as well
C5_Witness ==
  /\ phase = "alive" /\ capacity = 4
  /\ pc_c = "idle" /\ cres = SlotOf(2) /\ tail_ = 2
  /\ SizeOf(head_, tail_) = 2

\* C6: while the consumer has not called pop(), every front() after one that
\* returned an element returns the same pointer, and the element it points to
\* is the one first returned, whatever the producer inserted in between.
C6_FrontStable ==
  [][(pc_c = "f87" /\ ConsumerSteps /\ cres # Null)
       => /\ cres' = cres
          /\ slots'[cres'] = celem
          /\ celem.st = "live"]_vars

\* a second front() has returned after the producer published an element
\* that the first one had not seen
C6_Witness ==
  /\ phase = "alive" /\ capacity = 4
  /\ pc_c = "idle" /\ cres # Null
  /\ chead # fhead

PopSteps == ConsumerSteps /\ pc_c \in {"p94", "p95", "p96", "p97"}

\* C7: pop() on a non-empty queue destroys exactly one element, the one in the
\* slot indexed by tail, then advances tail by one modulo capacity, so that
\* size() decreases by exactly one; no other slot and not head is touched.
C7_Pop ==
  /\ [][(PopSteps /\ pc_c \in {"p94", "p95"})
          => (head_' = head_ /\ tail_' = tail_ /\ slots' = slots
              /\ destroyed' = destroyed)]_vars
  /\ [][(PopSteps /\ pc_c = "p96")
          => /\ pc_c' = "p97"
             /\ slots[SlotOf(tail_)].st = "live"
             /\ slots' = [slots EXCEPT ![SlotOf(tail_)] = Raw]
             /\ destroyed' = Append(destroyed, slots[SlotOf(tail_)])
             /\ head_' = head_ /\ tail_' = tail_]_vars
  /\ [][(PopSteps /\ pc_c = "p97")
          => /\ tail_' = (tail_ + 1) % capacity
             /\ SizeOf(head_', tail_') = SizeOf(head_, tail_) - 1
             /\ head_' = head_ /\ slots' = slots
             /\ destroyed' = destroyed]_vars

\* capacity 3: the third pop() has wrapped tail back to 0 and left one
\* element in the queue
C7_Witness ==
  /\ phase = "alive" /\ capacity = 3
  /\ pc_c = "idle" /\ Len(destroyed) = 3 /\ tail_ = 0
  /\ SizeOf(head_, tail_) = 1

\* the slots size() counts as elements all hold a constructed element
CountedAreLive ==
  \A i \in 1..SizeOf(head_, tail_) : QueueContents[i].st = "live"

\* C8 as stated: a pop() that reaches its precondition check on an empty
\* queue is stopped there by a fatal error, in every build.
C8_AlwaysRejected ==
  [][(pc_c = "p95" /\ ConsumerSteps /\ head_ = tail_)
       => (phase' = "aborted" /\ pc_c' = "abort")]_vars

\* C8 as amended: in a build with assertions enabled (NDEBUG not defined) a
\* pop() on an empty queue is stopped by the failing assert before it
\* destroys a slot or advances tail, and no unconstructed slot is ever
\* counted as an element; in a build with NDEBUG the check does not exist and
\* pop() goes on to line 96.
C8_RejectedUnlessNDEBUG ==
  /\ [][(pc_c = "p95" /\ ConsumerSteps /\ head_ = tail_)
          => IF ndebug
               THEN pc_c' = "p96" /\ phase' = phase
               ELSE /\ phase' = "aborted" /\ pc_c' = "abort"
                    /\ slots' = slots /\ tail_' = tail_ /\ head_' = head_
                    /\ destroyed' = destroyed]_vars
  /\ [][(phase = "aborted") => UNCHANGED <<slots, tail_, destroyed, phase>>]_vars
  /\ []((~ndebug /\ phase \in {"alive", "aborted"} /\ pc_c # "p97") => CountedAreLive)

\* an assert-enabled build has aborted a pop() on an empty queue in which the
\* producer is constructing an element
C8_Witness ==
  /\ ~ndebug /\ phase = "aborted" /\ pc_c = "abort"
  /\ head_ = tail_ /\ tail_ = 1
  /\ pc_p = "e67"

\* C9: the constructor fails with InvalidCapacity for capacity 0 or 1 whether
\* or not malloc succeeded; for capacity >= 2 it fails, with AllocationFailure,
\* exactly when malloc failed, and otherwise yields an empty queue with
\* head = tail = 0; a queue of capacity 2 holds at most one live element.
C9_Construction ==
  /\ [][(phase = "unconstructed" /\ phase' # phase)
          => /\ capacity' < 2 => phase' = "InvalidCapacity"
             /\ capacity' >= 2 =>
                  /\ phase' \in {"alive", "AllocationFailure"}
                  /\ (phase' = "AllocationFailure") <=> (block' = "none")
             /\ phase' = "alive" =>
                  /\ head_' = 0 /\ tail_' = 0
                  /\ SizeOf(head_', tail_') = 0
                  /\ DOMAIN slots' = 0..(capacity' + 2 * kPadding - 1)
                  /\ \A i \in DOMAIN slots' : slots'[i] = Raw]_vars
  /\ []((Constructed /\ capacity = 2) => LiveCount <= 1)

\* a queue of capacity 2 holds its second element after the first was removed
C9_Witness ==
  /\ phase = "alive" /\ capacity = 2
  /\ LiveCount = 1 /\ Len(destroyed) = 1 /\ Len(produced) = 2

Full == Constructed /\ (head_ + 1) % capacity = tail_
InEmplace == pc_p \in {"e62", "e64", "e66", "e67"}

\* C10: emplace() leaves its spin loop only when the queue is not full, so it
\* neither constructs nor publishes while the queue is full and does not
\* return while the queue stays full; it returns no failure; and if the
\* consumer always eventually removes an element from a full queue, every
\* emplace() in progress eventually returns.
C10_BlockingInsert ==
  /\ [][(pc_p = "e64" /\ pc_p' # "e64") => (~Full /\ pc_p' = "e66")]_vars
  /\ [](pc_p \in {"e66", "e67"} => ~Full)
  /\ [][(InEmplace /\ pc_p' = "idle")
          => (pret' = "void" /\ Len(produced') = Len(produced) + 1)]_vars
  /\ (Full ~> ~Full) => (InEmplace ~> pc_p = "idle")

\* an emplace() that found the queue full at least once has returned
C10_Witness ==
  /\ phase = "alive" /\ capacity = 3
  /\ pc_p = "idle" /\ pret = "void" /\ pspun
  /\ Len(produced) = 3

\* C11: the destructor of a quiescent queue destroys the elements still
\* queued in order from tail to head, each once, and frees the storage block
\* only when none is left, after which every inserted element has been
\* destroyed exactly once, by pop() or by the destructor; a destructor that
\* has started finishes.
C11_Destruction ==
  /\ [](Constructed =>
          /\ Len(destroyed) <= Len(produced)
          /\ \A i \in 1..Len(destroyed) : destroyed[i] = produced[i])
  /\ [][(phase = "destroying" /\ destroyed' # destroyed)
          => /\ slots[SlotOf(tail_)].st = "live"
             /\ destroyed' = Append(destroyed, slots[SlotOf(tail_)])
             /\ block' = "allocated"]_vars
  /\ [][(block' = "freed" /\ block # "freed")
          => (LiveCount = 0 /\ head_ = tail_ /\ destroyed = produced)]_vars
  /\ [](phase = "destroyed" =>
          (block = "freed" /\ LiveCount = 0 /\ destroyed = produced))
  /\ (phase = "destroying") ~> (phase = "destroyed")

\* capacity 3: four elements were inserted, the consumer removed two and the
\* destructor destroyed the other two, the second of them after wrapping tail
C11_Witness ==
  /\ phase = "destroyed" /\ capacity = 3
  /\ Len(produced) = 4 /\ Len(consumed) = 2 /\ Len(destroyed) = 4
  /\ block = "freed"

\* a step of thread th that returns from size()
SizeReturns(th) == PcOf(th) = "s103" /\ sz'[th].op = "size" /\ sz[th] # sz'[th]

\* C12: size() returns (head - tail) mod capacity for the two index values it
\* read, a value in 0..capacity-1, and empty() is true exactly when the two
\* values are equal.  Called by the producer or by the consumer thread, the
\* value is the number of elements between tail_ and head_ at the moment of
\* one of the call's two loads, whatever the other thread does meanwhile.
C12_SizeSnapshot ==
  [][\A th \in Threads :
       SizeReturns(th) =>
         /\ sz'[th].ret \in 0..(capacity - 1)
         /\ sz'[th].ret = (HeadRead(th) - TailRead(th)) % capacity
         /\ sz'[th].emp <=> (HeadRead(th) = TailRead(th))
         /\ sz'[th].emp <=> (sz'[th].ret = 0)
         /\ \/ sz'[th].ret = sz[th].snap
            \/ sz'[th].ret = (head_ - tail_) % capacity]_vars

\* capacity 3: the producer's size() has returned 2 computed from head < tail,
\* and the consumer has removed an element since, so the value is stale
C12_Witness ==
  /\ phase = "alive" /\ capacity = 3
  /\ pc_p = "s108" /\ sz["prod"].op = "size" /\ sz["prod"].ret = 2
  /\ head_ = 0 /\ tail_ = 2

\* the storage indices of the data slots, and of the padding slots around them
DataSlots == kPadding..(kPadding + capacity - 1)
PaddingSlots == DOMAIN slots \ DataSlots

\* C13: head and tail stay within 0..capacity-1, so the slot an insert
\* constructs into, the slot front() points to and the slot pop() destroys
\* are data slots, and the padding slots before and after them are never
\* constructed, returned or destroyed.
C13_IndicesInRange ==
  Constructed =>
    /\ head_ \in 0..(capacity - 1)
    /\ tail_ \in 0..(capacity - 1)
    /\ DOMAIN slots = 0..(capacity + 2 * kPadding - 1)
    /\ pc_p \in {"e66", "e67", "t76", "t77"} => ConstructAt(phead) \in DataSlots
    /\ cres # Null => cres \in DataSlots
    /\ pc_c \in {"p96", "p97"} => DestroyAt(ctail) \in DataSlots
    /\ \A i \in PaddingSlots : slots[i] = Raw

\* capacity 4: head has wrapped to 0 after the fourth insert and pop() is
\* about to destroy the last data slot
C13_Witness ==
  /\ phase = "alive" /\ capacity = 4
  /\ head_ = 0 /\ Len(produced) = 4
  /\ pc_c = "p96" /\ ctail = 3 /\ cres = kPadding + 3

\* the slot indexed by tail holds a constructed element
TailSlotLive == slots[SlotOf(tail_)].st = "live"

\* C14 as stated: in every reachable state the slot indexed by tail holds a
\* live element iff head != tail.
C14_OccupancyEverywhere == Constructed => (TailSlotLive <=> head_ # tail_)

\* C14 as amended: the slot indexed by tail holds a live element iff
\* head != tail, except in two transient states: while pop() is between
\* destroying the element (line 96) and storing the new tail (line 98) the
\* slot at tail is already dead although head != tail, and while an insert
\* into an empty queue is between constructing the element (lines 66 / 76)
\* and storing the new head (lines 67 / 77) the slot at tail is already live
\* although head == tail.
C14_OccupancyAtRest ==
  Constructed =>
    /\ (head_ # tail_ /\ pc_c # "p97") => TailSlotLive
    /\ (TailSlotLive /\ pc_p \notin {"e67", "t77"}) => head_ # tail_
    /\ (head_ # tail_ /\ pc_c = "p97") => ~TailSlotLive
    /\ (head_ = tail_ /\ pc_p \in {"e67", "t77"}) => TailSlotLive

\* capacity 3, both threads between calls: tail = 2 holds the oldest of two
\* elements and head has wrapped to 1
C14_Witness ==
  /\ phase = "alive" /\ capacity = 3
  /\ pc_p = "idle" /\ pc_c = "idle"
  /\ tail_ = 2 /\ head_ = 1 /\ TailSlotLive

\* C15: no slot is ever double-constructed or double-destroyed: whenever an
\* insert is about to run its placement new (lines 66 / 76) the slot it
\* constructs into holds no live element, whenever pop(), called by the
\* consumer or by the destructor, is about to run ~T() (line 96) the slot it
\* destroys holds a live element the producer has published, and no element
\* is destroyed twice.
C15_NoDoubleLifetime ==
  Constructed =>
    /\ pc_p \in {"e66", "t76"} => slots[ConstructAt(phead)].st = "raw"
    /\ pc_c = "p96" =>
         /\ slots[DestroyAt(ctail)].st = "live"
         /\ ~ProducerOwns(DestroyAt(ctail))
    /\ \A i, j \in 1..Len(destroyed) :
         i # j => destroyed[i].id # destroyed[j].id
    /\ \A i \in 1..Len(destroyed), p \in DOMAIN slots :
         slots[p].st = "live" => slots[p].id # destroyed[i].id

\* capacity 3: the producer is about to construct the fourth element in
\* slot 0, which the first element has vacated, while the consumer is about
\* to destroy the third element in slot 2
C15_Witness ==
  /\ phase = "alive" /\ capacity = 3
  /\ pc_p = "t76" /\ phead = 0 /\ Len(produced) = 3
  /\ pc_c = "p96" /\ ctail = 2 /\ Len(destroyed) = 2

\* the slot the consumer side is using: the one front() returned a pointer to
\* and the client may read, and the one pop() is destroying or has destroyed
\* without having stored the new tail yet
ConsumerHolds(p) ==
  \/ cres # Null /\ cres = p
  \/ pc_c \in {"p96", "p97"} /\ DestroyAt(ctail) = p

\* C16: the producer and the consumer never use the same slot at the same
\* time: the slot an insert is constructing into, from before its placement
\* new until its head store, is never the slot front() has handed out or
\* pop() is destroying or has destroyed without publishing the tail advance;
\* the element the consumer reads through front()'s pointer is live and was
\* published by a head store.
C16_NoSharedSlot ==
  Constructed =>
    /\ \A p \in DOMAIN slots : ~(ProducerOwns(p) /\ ConsumerHolds(p))
    /\ (cres # Null /\ pc_c # "p97") =>
         /\ slots[cres].st = "live"
         /\ slots[cres].id <= Len(produced)
    /\ pc_c = "p96" => slots[DestroyAt(ctail)].id <= Len(produced)
    /\ pc_p \in {"e67", "t77"} =>
         slots[ConstructAt(phead)].id = Len(produced) + 1

\* capacity 3: the producer has constructed the second element in slot 1 and
\* not published it while the consumer is destroying the first in slot 0
C16_Witness ==
  /\ phase = "alive" /\ capacity = 3
  /\ pc_p = "e67" /\ phead = 1
  /\ pc_c = "p96" /\ ctail = 0 /\ cres = SlotOf(0)

\* a step of emplace / push / try_emplace / try_push, of front / pop, and of
\* size / empty / capacity
InsertPcs == {"e62", "e64", "e66", "e67", "t71", "t73", "t76", "t77"}
InsertSteps == pc_p' # pc_p /\ (pc_p \in InsertPcs \/ pc_p' \in InsertPcs)
RemovePcs == {"f86", "f87", "p94", "p95", "p96", "p97"}
RemoveSteps == pc_c' # pc_c /\ (pc_c \in RemovePcs \/ pc_c' \in RemovePcs)
IntroPcs == {"s102", "s103", "s108"}
IntroSteps ==
  \/ pc_p' # pc_p /\ (pc_p \in IntroPcs \/ pc_p' \in IntroPcs)
  \/ pc_c' # pc_c /\ (pc_c \in IntroPcs \/ pc_c' \in IntroPcs)
OtherSlotsKept(p) == \A q \in DOMAIN slots \ {p} : slots'[q] = slots[q]

\* C17: every step of an insert operation leaves tail and every slot other
\* than the one indexed by head unchanged; every step of front() and pop()
\* leaves head and every slot other than the one indexed by tail unchanged;
\* every step of size(), empty() and capacity() leaves head, tail, the slots,
\* the capacity and the block unchanged; once the queue is constructed its
\* capacity never changes.
C17_SingleWriter ==
  [][/\ InsertSteps =>
          /\ tail_' = tail_
          /\ DOMAIN slots' = DOMAIN slots /\ OtherSlotsKept(SlotOf(head_))
     /\ RemoveSteps =>
          /\ head_' = head_
          /\ DOMAIN slots' = DOMAIN slots /\ OtherSlotsKept(SlotOf(tail_))
     /\ IntroSteps => UNCHANGED <<head_, tail_, slots, capacity, block>>
     /\ Constructed => capacity' = capacity]_vars

\* the producer has constructed into the slot at head = 2 and the consumer,
\* with tail = 1, is inside size() having made its first load
C17_Witness ==
  /\ phase = "alive" /\ capacity = 3
  /\ pc_p = "e67" /\ head_ = 2 /\ slots[SlotOf(2)].st = "live"
  /\ pc_c = "s103" /\ tail_ = 1 /\ Len(destroyed) = 1

\* the operation a program counter belongs to and its position in it
OpOf ==
  [pc \in InsertPcs \cup RemovePcs \cup IntroPcs |->
     CASE pc \in {"e62", "e64", "e66", "e67"} -> "emplace"
       [] pc \in {"t71", "t73", "t76", "t77"} -> "try_emplace"
       [] pc \in {"f86", "f87"} -> "front"
       [] pc \in {"p94", "p95", "p96", "p97"} -> "pop"
       [] OTHER -> "size"]
OpRank ==
  [pc \in DOMAIN OpOf |->
     CASE pc \in {"e62", "t71", "f86", "p94", "s102"} -> 1
       [] pc \in {"e64", "t73", "f87", "p95", "s103"} -> 2
       [] pc \in {"e66", "t76", "p96", "s108"} -> 3
       [] OTHER -> 4]
WaitFreePcs == {pc \in DOMAIN OpOf : OpOf[pc] # "emplace"}

\* the step leaves the operation pc belongs to or moves forward in it
Forward(pc, next) ==
  \/ next \notin DOMAIN OpOf
  \/ OpOf[next] # OpOf[pc]
  \/ OpRank[next] > OpRank[pc]

TryRuns == T71 \/ T73 \/ T76 \/ T77
RemoveRuns == F86 \/ F87 \/ P94 \/ P95 \/ P96 \/ P98
SizeRuns(th) == S102(th) \/ S103(th) \/ S108(th)

\* C18: try_emplace / try_push, front(), pop(), size() and empty() are
\* wait-free: in every reachable state, whatever the other thread is doing,
\* a thread inside one of them can take its next step, and every step it
\* takes leaves the operation or moves to a later line of it, so a call ends
\* within four of its own steps; the only step that can leave a thread where
\* it is is the spin loop of the blocking insert (line 64).
C18_WaitFree ==
  /\ [](/\ (pc_p \in WaitFreePcs /\ OpOf[pc_p] = "try_emplace") =>
             ENABLED (TryRuns /\ pc_p' # pc_p)
        /\ (pc_c \in WaitFreePcs /\ OpOf[pc_c] \in {"front", "pop"}) =>
             ENABLED (RemoveRuns /\ pc_c' # pc_c)
        /\ \A th \in Threads :
             PcOf(th) \in IntroPcs => ENABLED (SizeRuns(th) /\ PcOf(th)' # PcOf(th)))
  /\ [][/\ (pc_p \in WaitFreePcs /\ pc_p' # pc_p) => Forward(pc_p, pc_p')
        /\ (pc_c \in WaitFreePcs /\ pc_c' # pc_c) => Forward(pc_c, pc_c')
        /\ (pc_p \in DOMAIN OpOf /\ ProducerSteps /\ ~Forward(pc_p, pc_p')) =>
             (pc_p = "e64" /\ pc_p' = "e64" /\ pnext = tail_)]_vars

\* capacity 2: the consumer has destroyed the only element and not stored the
\* new tail; the producer's try_emplace sees a full queue at line 73 and its
\* next step returns false
C18_Witness ==
  /\ phase = "alive" /\ capacity = 2
  /\ pc_c = "p97" /\ tail_ = 0
  /\ pc_p = "t73" /\ pnext = tail_

\* C19: what the owning side has observed stays true against the other side:
\* from the moment front() has returned an element until the consumer's own
\* pop() stores the new tail, head != tail and tail still indexes the slot
\* front() returned, so the check of line 95 passes whatever the producer
\* did in between; from the moment an insert has seen the queue not full
\* until its own head store, the queue is not full and head is still the
\* index the insert loaded.
C19_StableObservations ==
  Constructed =>
    /\ cres # Null => (head_ # tail_ /\ cres = SlotOf(tail_))
    /\ pc_c \in {"p95", "p96", "p97"} => (head_ # ctail /\ ctail = tail_)
    /\ pc_p \in {"e66", "e67", "t76", "t77"} =>
         (~Full /\ phead = head_ /\ pnext # tail_)

\* capacity 4: front() returned the element in slot 0 when head was 1; since
\* then the producer has published a second element and is constructing a
\* third; the consumer is at the check of line 95
C19_Witness ==
  /\ phase = "alive" /\ capacity = 4
  /\ pc_c = "p95" /\ cres = SlotOf(0) /\ fhead = 1
  /\ head_ = 2 /\ pc_p = "e66"

\* a queue object exists that owns the block and whose destructor will run
Owned == phase \in {"alive", "destroying"}

\* C20: a construction that fails, with InvalidCapacity or AllocationFailure,
\* leaves no storage block allocated, and no block stays allocated without a
\* live queue owning it: a block is allocated only while the queue is alive
\* or being destroyed, and the destructor has freed it when it ends.
C20_NoBlockLeaked ==
  /\ phase \in {"InvalidCapacity", "AllocationFailure"} => block # "allocated"
  /\ block = "allocated" => Owned
  /\ phase = "destroyed" => block = "freed"

\* the constructor has thrown for a capacity below 2 after malloc succeeded
C20_Witness ==
  /\ phase = "InvalidCapacity" /\ capacity = 1
  /\ block = "allocated"

TypeOK ==
  /\ phase \in {"unconstructed", "InvalidCapacity", "AllocationFailure", "alive",
                "destroying", "destroyed", "aborted", "crashed", "undefined"}
  /\ block \in {"none", "allocated", "freed"}
  /\ capacity \in 0..MaxCap
  /\ head_ \in 0..MaxCap /\ tail_ \in 0..MaxCap
  /\ pc_p \in {"idle", "e62", "e64", "e66", "e67", "t71", "t73", "t76", "t77",
              "s102", "s103", "s108"}
  /\ pc_c \in {"idle", "f86", "f87", "p94", "p95", "p96", "p97", "d54", "abort",
              "s102", "s103", "s108"}
  /\ pret \in {"none", "void", "true", "false"}
  /\ Len(produced) <= MaxPush
====
